---- MODULE Spec2Model ----
(***************************************************************************)
(* Decoding of the TrueType 'head' table: HEAD::from_data, HEAD::bytes,    *)
(* HEAD::location_format and the derived Default, together with the Error  *)
(* enumeration.                                                            *)
(*                                                                         *)
(* Bytes are naturals in 0..255 and a byte slice is a sequence of bytes.   *)
(* 16-bit values and i32 values are integers.  TLC's integers are 32 bits  *)
(* wide, so a u32 is kept as two big-endian 16-bit limbs and an i64 as     *)
(* four (the first one signed); the code does no arithmetic on them.       *)
(***************************************************************************)
EXTENDS Integers, Sequences, FiniteSets, TLC

\* ------------------------------------------------------------------------
\* Program constants
\* ------------------------------------------------------------------------
SIZE == 54

VERSION == 65536

\* ------------------------------------------------------------------------
\* Bounds of the explored inputs
\* ------------------------------------------------------------------------
MaxPre == 1

MaxExtra == 1

MaxFill == 1

MaxOffset == 2

\* ------------------------------------------------------------------------
\* error.rs
\* ------------------------------------------------------------------------
Error == {"Malformed", "MissingTable", "HHEAVersionIsNotSupported",
          "HEADVersionIsNotSupported"}

From_byteorder_Version(e) == "HEADVersionIsNotSupported"

From_byteorder_Error(e) == "Malformed"

\* ------------------------------------------------------------------------
\* Big-endian primitive readers over a cursor (buf, pos); pos is 0-based
\* ------------------------------------------------------------------------
U8(buf, p) == buf[p + 1]

BE16(buf, p) == U8(buf, p) * 256 + U8(buf, p + 1)

Signed16(u) == IF u >= 32768 THEN u - 65536 ELSE u

Width(kind) ==
    CASE kind = "i16" -> 2
      [] kind = "u16" -> 2
      [] kind = "i32" -> 4
      [] kind = "u32" -> 4
      [] kind = "i64" -> 8

read_u16(buf, p) == BE16(buf, p)

read_i16(buf, p) == Signed16(BE16(buf, p))

read_i32(buf, p) ==
    (IF U8(buf, p) >= 128 THEN U8(buf, p) - 256 ELSE U8(buf, p)) * 16777216
      + U8(buf, p + 1) * 65536 + U8(buf, p + 2) * 256 + U8(buf, p + 3)

read_u32(buf, p) == << BE16(buf, p), BE16(buf, p + 2) >>

read_i64(buf, p) ==
    << Signed16(BE16(buf, p)), BE16(buf, p + 2), BE16(buf, p + 4), BE16(buf, p + 6) >>

ReadValue(kind, buf, p) ==
    CASE kind = "i16" -> read_i16(buf, p)
      [] kind = "u16" -> read_u16(buf, p)
      [] kind = "i32" -> read_i32(buf, p)
      [] kind = "u32" -> read_u32(buf, p)
      [] kind = "i64" -> read_i64(buf, p)

\* A read fails when fewer bytes remain than the width of the value.
ShortRead(buf, p, kind) == p + Width(kind) > Len(buf)

\* ------------------------------------------------------------------------
\* Big-endian primitive writers
\* ------------------------------------------------------------------------
write_u16(v) == << v \div 256, v % 256 >>

write_i16_le(v) == << v % 256, (v \div 256) % 256 >>

write_i16(v) == << (v \div 256) % 256, v % 256 >>

write_i32(v) ==
    << (v \div 16777216) % 256, (v \div 65536) % 256, (v \div 256) % 256, v % 256 >>

write_u32_swapped(v) == write_u16(v[2]) \o write_u16(v[1])

write_u32(v) == write_u16(v[1]) \o write_u16(v[2])

write_i64(v) ==
    write_i16(v[1]) \o write_u16(v[2]) \o write_u16(v[3]) \o write_u16(v[4])

\* ------------------------------------------------------------------------
\* head.rs: the HEAD record
\* ------------------------------------------------------------------------
NoHead == [none |-> TRUE]

HEAD_default ==
    [version |-> 0, font_revision |-> 0,
     check_sum_adjustment |-> <<0, 0>>, magic_number |-> <<0, 0>>,
     flags |-> 0, units_per_em |-> 0,
     created |-> <<0, 0, 0, 0>>, modified |-> <<0, 0, 0, 0>>,
     x_min |-> 0, y_min |-> 0, x_max |-> 0, y_max |-> 0,
     mac_style |-> 0, lowest_rec_ppem |-> 0, font_direction_hint |-> 0,
     index_to_loc_format |-> 0, glyph_data_format |-> 0]

\* ------------------------------------------------------------------------
\* head.rs: HEAD::from_data
\* ------------------------------------------------------------------------
OffsetOutOfRange_gt(data, offset) == offset > Len(data)

OffsetOutOfRange_eq(data, offset) == offset = Len(data)

OffsetOutOfRange(data, offset) == offset >= Len(data)

Slice_whole(data, offset) == data

\* &data[offset..]
Slice(data, offset) == SubSeq(data, offset + 1, Len(data))

VersionSupported_hi(version) == version \div 65536 = VERSION \div 65536

VersionSupported(version) == version = VERSION

LocationFormatKnown_le2(index_to_loc_format) == ~(index_to_loc_format > 2)

LocationFormatKnown(index_to_loc_format) == ~(index_to_loc_format > 1)

\* s is the decoding in progress: the cursor (buf, pos), the record being
\* filled, the number of fields read so far, and status, which is "run"
\* until a try! or a return leaves the function.
Start(buf) ==
    [buf |-> buf, pos |-> 0, head |-> HEAD_default, nfields |-> 0, status |-> "run"]

\* head.<field> = try!(cursor.read_<kind>::<BigEndian>())
Read(s, field, kind) ==
    IF s.status # "run" THEN s
    ELSE IF ShortRead(s.buf, s.pos, kind)
         THEN [s EXCEPT !.status = From_byteorder_Error("UnexpectedEOF")]
         ELSE [s EXCEPT !.head = [s.head EXCEPT ![field] = ReadValue(kind, s.buf, s.pos)],
                        !.pos = s.pos + Width(kind),
                        !.nfields = s.nfields + 1]

\* if version != Fixed(0x00010000) { return Err(HEADVersionIsNotSupported) }
CheckVersion(s) ==
    IF s.status = "run" /\ ~VersionSupported(s.head.version)
    THEN [s EXCEPT !.status = "HEADVersionIsNotSupported"]
    ELSE s

\* if head.index_to_loc_format > 1 { return Err(UnknownLocationFormat) }
CheckLocationFormat(s) ==
    IF s.status = "run" /\ ~LocationFormatKnown(s.head.index_to_loc_format)
    THEN [s EXCEPT !.status = "UnknownLocationFormat"]
    ELSE s

Outcome(s, sliced) ==
    [result  |-> IF s.status = "run" THEN "Ok" ELSE s.status,
     head    |-> IF s.status = "run" THEN s.head ELSE NoHead,
     nfields |-> s.nfields,
     sliced  |-> sliced]

Decode(buf) ==
    LET s1  == CheckVersion(Read(Start(buf), "version", "i32"))
        s2  == Read(s1,  "font_revision", "i32")
        s3  == Read(s2,  "check_sum_adjustment", "u32")
        s4  == Read(s3,  "magic_number", "u32")
        s5  == Read(s4,  "flags", "u16")
        s6  == Read(s5,  "units_per_em", "u16")
        s7  == Read(s6,  "created", "i64")
        s8  == Read(s7,  "modified", "i64")
        s9  == Read(s8,  "x_min", "i16")
        s10 == Read(s9,  "y_min", "i16")
        s11 == Read(s10, "x_max", "i16")
        s12 == Read(s11, "y_max", "i16")
        s13 == Read(s12, "mac_style", "u16")
        s14 == Read(s13, "lowest_rec_ppem", "u16")
        s15 == Read(s14, "font_direction_hint", "i16")
        s16 == CheckLocationFormat(Read(s15, "index_to_loc_format", "u16"))
        s17 == Read(s16, "glyph_data_format", "i16")
    IN  s17

\* The same reads with the discriminant validated after the last field.
from_data_validate_last(data, offset) ==
    IF OffsetOutOfRange(data, offset)
    THEN [result |-> "Malformed", head |-> NoHead, nfields |-> 0, sliced |-> FALSE]
    ELSE LET buf == Slice(data, offset)
             s1  == CheckVersion(Read(Start(buf), "version", "i32"))
             s2  == Read(s1,  "font_revision", "i32")
             s3  == Read(s2,  "check_sum_adjustment", "u32")
             s4  == Read(s3,  "magic_number", "u32")
             s5  == Read(s4,  "flags", "u16")
             s6  == Read(s5,  "units_per_em", "u16")
             s7  == Read(s6,  "created", "i64")
             s8  == Read(s7,  "modified", "i64")
             s9  == Read(s8,  "x_min", "i16")
             s10 == Read(s9,  "y_min", "i16")
             s11 == Read(s10, "x_max", "i16")
             s12 == Read(s11, "y_max", "i16")
             s13 == Read(s12, "mac_style", "u16")
             s14 == Read(s13, "lowest_rec_ppem", "u16")
             s15 == Read(s14, "font_direction_hint", "i16")
             s16 == Read(s15, "index_to_loc_format", "u16")
             s17 == CheckLocationFormat(Read(s16, "glyph_data_format", "i16"))
         IN  Outcome(s17, TRUE)

from_data(data, offset) ==
    IF OffsetOutOfRange(data, offset)
    THEN [result |-> "Malformed", head |-> NoHead, nfields |-> 0, sliced |-> FALSE]
    ELSE IF offset > Len(data)
         THEN \* &data[offset..] with offset > data.len() panics
              [result |-> "panic", head |-> NoHead, nfields |-> 0, sliced |-> FALSE]
         ELSE Outcome(Decode(Slice(data, offset)), TRUE)

\* ------------------------------------------------------------------------
\* head.rs: HEAD::bytes and HEAD::location_format
\* ------------------------------------------------------------------------
bytes(self) ==
    write_i32(self.version) \o
    write_i32(self.font_revision) \o
    write_u32(self.check_sum_adjustment) \o
    write_u32(self.magic_number) \o
    write_u16(self.flags) \o
    write_u16(self.units_per_em) \o
    write_i64(self.created) \o
    write_i64(self.modified) \o
    write_i16(self.x_min) \o
    write_i16(self.y_min) \o
    write_i16(self.x_max) \o
    write_i16(self.y_max) \o
    write_u16(self.mac_style) \o
    write_u16(self.lowest_rec_ppem) \o
    write_i16(self.font_direction_hint) \o
    write_u16(self.index_to_loc_format) \o
    write_i16(self.glyph_data_format)

location_format(self) ==
    CASE self.index_to_loc_format = 0 -> "Short"
      [] self.index_to_loc_format = 1 -> "Long"
      [] OTHER -> "unreachable"

\* ------------------------------------------------------------------------
\* Input byte slices
\* ------------------------------------------------------------------------
Versions == { <<0, 1, 0, 0>>, <<0, 0, 0, 0>>, <<0, 1, 0, 1>>, <<255, 255, 0, 0>> }

LocHi == {0, 1}

LocLo == {0, 1, 2, 255}

Fill(k, i) == IF k = 0 THEN 0 ELSE (i * (36 + k) + 11 * k) % 256

\* A 54-byte record followed by MaxExtra further bytes.
Record(ver, k, hi, lo) ==
    [i \in 1..(SIZE + MaxExtra) |->
        IF i <= 4 THEN ver[i]
        ELSE IF i = 51 THEN hi
        ELSE IF i = 52 THEN lo
        ELSE Fill(k, i)]

Input(pre, ver, k, hi, lo, n) ==
    [i \in 1..pre |-> 170] \o SubSeq(Record(ver, k, hi, lo), 1, n)

Inputs ==
    { Input(pre, ver, k, hi, lo, n) :
        pre \in 0..MaxPre, ver \in Versions, k \in 0..MaxFill,
        hi \in LocHi, lo \in LocLo, n \in 0..(SIZE + MaxExtra) }

Offsets(d) == (0..MaxOffset) \cup {Len(d), Len(d) + 1}

\* ------------------------------------------------------------------------
\* State
\* ------------------------------------------------------------------------
VARIABLES
    data,          \* the byte slice of the caller
    offset,        \* the offset of the latest from_data call
    call,          \* the latest operation
    result,        \* outcome of the latest from_data call
    nfields,       \* fields read by the latest from_data call
    sliced,        \* whether that call took &data[offset..]
    head,          \* the record the caller holds, or NoHead
    origin,        \* how head was obtained: "none", "from_data", "default"
    encoded,       \* output of the latest bytes call
    encodedHead,   \* the record that call encoded
    encodedOrigin, \* how that record was obtained
    fromEncoded,   \* whether the latest from_data call decoded `encoded`
    loc            \* result of the latest location_format call

vars == << data, offset, call, result, nfields, sliced, head, origin,
           encoded, encodedHead, encodedOrigin, fromEncoded, loc >>

Init ==
    /\ data \in Inputs
    /\ offset = 0
    /\ call = "none"
    /\ result = "none"
    /\ nfields = 0
    /\ sliced = FALSE
    /\ head = NoHead
    /\ origin = "none"
    /\ encoded = << >>
    /\ encodedHead = NoHead
    /\ encodedOrigin = "none"
    /\ fromEncoded = FALSE
    /\ loc = "none"

\* let head = HEAD::from_data(&data, off)
Bind(d, off, r) ==
    /\ data' = d
    /\ offset' = off
    /\ call' = "from_data"
    /\ result' = r.result
    /\ nfields' = r.nfields
    /\ sliced' = r.sliced
    /\ head' = r.head
    /\ origin' = IF r.result = "Ok" THEN "from_data" ELSE "none"
    /\ loc' = "none"

FromData ==
    /\ \E off \in Offsets(data) : Bind(data, off, from_data(data, off))
    /\ fromEncoded' = FALSE
    /\ UNCHANGED << encoded, encodedHead, encodedOrigin >>

\* HEAD::from_data(&head.bytes(), 0), second half
FromDataEncoded ==
    /\ call = "bytes"
    /\ Bind(encoded, 0, from_data(encoded, 0))
    /\ fromEncoded' = TRUE
    /\ UNCHANGED << encoded, encodedHead, encodedOrigin >>

\* HEAD::default()
Default ==
    /\ call # "default"
    /\ head' = HEAD_default
    /\ origin' = "default"
    /\ call' = "default"
    /\ loc' = "none"
    /\ UNCHANGED << data, offset, result, nfields, sliced,
                    encoded, encodedHead, encodedOrigin, fromEncoded >>

\* head.bytes()
Bytes ==
    /\ head # NoHead
    /\ encoded' = bytes(head)
    /\ encodedHead' = head
    /\ encodedOrigin' = origin
    /\ call' = "bytes"
    /\ UNCHANGED << data, offset, result, nfields, sliced, head, origin,
                    fromEncoded, loc >>

\* head.location_format()
LocationFormat ==
    /\ head # NoHead
    /\ loc' = location_format(head)
    /\ call' = "location_format"
    /\ UNCHANGED << data, offset, result, nfields, sliced, head, origin,
                    encoded, encodedHead, encodedOrigin, fromEncoded >>

Next ==
    \/ FromData
    \/ FromDataEncoded
    \/ Default
    \/ Bytes
    \/ LocationFormat

Spec == Init /\ [][Next]_vars

\* ------------------------------------------------------------------------
\* Helpers of the properties
\* ------------------------------------------------------------------------
Remaining == IF offset >= Len(data) THEN 0 ELSE Len(data) - offset

\* the bytes data[offset + i], i 0-based, as the table of the layout gives them
At(i) == data[offset + i + 1]

VersionBytesOk ==
    /\ Remaining >= 4
    /\ At(0) = 0 /\ At(1) = 1 /\ At(2) = 0 /\ At(3) = 0

VersionBytesBad ==
    /\ Remaining >= 4
    /\ ~(At(0) = 0 /\ At(1) = 1 /\ At(2) = 0 /\ At(3) = 0)

Called == call = "from_data"

TypeOK ==
    /\ result \in {"none", "Ok", "Malformed", "HEADVersionIsNotSupported",
                   "UnknownLocationFormat", "panic"}
    /\ nfields \in 0..17
    /\ origin \in {"none", "from_data", "default"}
    /\ loc \in {"none", "Short", "Long", "unreachable"}

\* the 16-bit discriminant at record offset 50, from the bytes of data
DiscriminantOk == Remaining >= 52 /\ At(50) = 0 /\ At(51) \in {0, 1}

DiscriminantBad == Remaining >= 52 /\ ~(At(50) = 0 /\ At(51) \in {0, 1})

Min(a, b) == IF a <= b THEN a ELSE b

\* data is the first Len(data) bytes of some valid 54-byte record
PrefixOfValid ==
    \A i \in 1..Len(data) :
        /\ (i \in {1, 3, 4, 51}) => data[i] = 0
        /\ (i = 2) => data[i] = 1
        /\ (i = 52) => data[i] \in {0, 1}

\* ------------------------------------------------------------------------
\* Properties
\* ------------------------------------------------------------------------

\* C1: whenever from_data is called with offset >= len(data), it fails with
\* Malformed, the slice data[offset..] is never taken and no field is read.
C1_OffsetPastEnd ==
    (Called /\ offset >= Len(data)) =>
        (result = "Malformed" /\ ~sliced /\ nfields = 0 /\ head = NoHead)

C1_Witness ==
    Called /\ offset = Len(data) /\ Len(data) >= SIZE /\ result = "Malformed"

\* C2: whenever at least 4 bytes remain from offset and the version bytes are
\* not 00 01 00 00, from_data fails with HEADVersionIsNotSupported having read
\* the version field only, whatever follows.
C2_VersionGateFirst ==
    (Called /\ VersionBytesBad) =>
        (result = "HEADVersionIsNotSupported" /\ nfields = 1 /\ head = NoHead)

C2_Witness ==
    /\ Called /\ VersionBytesBad
    /\ Remaining > 4 /\ Remaining < SIZE
    /\ result = "HEADVersionIsNotSupported"

\* C3 as stated: with a supported version and fewer than 54 bytes remaining
\* from_data fails with Malformed, never with UnknownLocationFormat, and the
\* discriminant is validated only after all 17 fields have been read.
C3_Original ==
    /\ (Called /\ VersionBytesOk /\ Remaining < SIZE) => result = "Malformed"
    /\ (Called /\ result = "UnknownLocationFormat") => nfields = 17

\* C3 amended: with a supported version and fewer than 54 bytes remaining
\* from_data fails; with UnknownLocationFormat exactly when at least 52 bytes
\* remain and the discriminant is neither 0 nor 1, with Malformed otherwise.
\* The discriminant is validated right after it is read as the 16th field,
\* before the glyph data format is read.
C3_ShortReadVersusDiscriminant ==
    /\ (Called /\ VersionBytesOk /\ Remaining < SIZE) =>
          IF DiscriminantBad
          THEN result = "UnknownLocationFormat"
          ELSE result = "Malformed"
    /\ (Called /\ result = "UnknownLocationFormat") => nfields = 16

C3_Witness ==
    /\ Called /\ VersionBytesOk
    /\ Remaining >= 52 /\ Remaining < SIZE
    /\ DiscriminantBad
    /\ result = "UnknownLocationFormat"

\* C4 as stated: with at least 54 bytes remaining, a supported version and a
\* discriminant other than 0 or 1, from_data fails with UnknownLocationFormat,
\* and that error is a member of the Error enumeration.
C4_Claim ==
    (Called /\ Remaining >= SIZE /\ VersionBytesOk /\ DiscriminantBad) =>
        (result = "UnknownLocationFormat" /\ result \in Error)

\* C5: decoding a proper prefix of a valid 54-byte record at offset 0 fails
\* with Malformed and yields no record.
C5_Truncation ==
    (Called /\ offset = 0 /\ Len(data) < SIZE /\ PrefixOfValid) =>
        (result = "Malformed" /\ head = NoHead)

C5_Witness ==
    /\ Called /\ offset = 0 /\ Len(data) = SIZE - 1 /\ PrefixOfValid
    /\ result = "Malformed"

\* C6: decoding the bytes of a record that from_data returned succeeds and
\* returns a record equal to it in every field.
C6_RoundTripRecord ==
    (Called /\ fromEncoded /\ encodedOrigin = "from_data") =>
        (result = "Ok" /\ head = encodedHead)

C6_Witness ==
    /\ Called /\ fromEncoded /\ encodedOrigin = "from_data"
    /\ result = "Ok"
    /\ head.font_revision < 0 /\ head.x_min # 0

\* C7: the bytes of a record that from_data returned are 54 bytes long and
\* equal data[offset..offset+54].
C7_RoundTripBytes ==
    (call = "bytes" /\ encodedOrigin = "from_data") =>
        /\ Len(encoded) = SIZE
        /\ Len(data) >= offset + SIZE
        /\ encoded = SubSeq(data, offset + 1, offset + SIZE)

C7_Witness ==
    /\ call = "bytes" /\ encodedOrigin = "from_data"
    /\ offset > 0
    /\ encoded[5] >= 128

\* C8 as stated: every record held was created by a successful from_data, has
\* the supported version and a discriminant of 0 or 1.
C8_Original ==
    head # NoHead =>
        /\ origin = "from_data"
        /\ head.version = VERSION
        /\ head.index_to_loc_format \in {0, 1}

\* C8 amended: every record held was either returned by a successful
\* from_data, and then has the supported version, or is the all-zero record of
\* the derived Default, with version 0; in both cases the discriminant is 0 or
\* 1 and location_format never reaches its unreachable arm.
C8_RecordValidity ==
    /\ head # NoHead =>
          /\ origin \in {"from_data", "default"}
          /\ origin = "from_data" => head.version = VERSION
          /\ origin = "default" => head.version = 0 /\ head.index_to_loc_format = 0
          /\ head.index_to_loc_format \in {0, 1}
    /\ loc # "unreachable"
    /\ call = "location_format" => loc \in {"Short", "Long"}

C8_Witness ==
    call = "location_format" /\ origin = "default" /\ loc = "Short"

\* C9: every from_data call returns a record or one of Malformed,
\* HEADVersionIsNotSupported, UnknownLocationFormat; it never panics, and the
\* slice is taken only when offset < len(data).
C9_TotalClosedErrors ==
    Called =>
        /\ result \in {"Ok", "Malformed", "HEADVersionIsNotSupported",
                       "UnknownLocationFormat"}
        /\ result \notin {"panic", "MissingTable", "HHEAVersionIsNotSupported"}
        /\ (result = "Ok") <=> (head # NoHead)
        /\ sliced => offset < Len(data)

C9_Witness ==
    Called /\ offset > Len(data) /\ Len(data) > 0 /\ result = "Malformed"

\* C10: from_data succeeds exactly when at least 54 bytes remain from offset,
\* the version bytes are 00 01 00 00 and the discriminant is 0 or 1; and its
\* outcome is that of decoding the window data[offset..min(offset+54, len)]
\* alone.
C10_SuccessConditionAndLocality ==
    Called =>
        /\ (result = "Ok") <=>
              /\ offset < Len(data)
              /\ Len(data) - offset >= SIZE
              /\ VersionBytesOk
              /\ DiscriminantOk
        /\ LET w == SubSeq(data, offset + 1, Min(offset + SIZE, Len(data)))
               r == from_data(w, 0)
           IN  r.result = result /\ r.head = head

C10_Witness ==
    /\ Called /\ result = "Ok"
    /\ offset > 0 /\ Len(data) > offset + SIZE

====
